---- MODULE Spec2Model ----
(***************************************************************************)
(* The decision core of the OCSP responder: cmd/ocsp-responder/main.go.    *)
(* ocspFilter (newFilter, checkRequest, responseMatchesIssuer) and         *)
(* dbSource.Response, run against a backing store of certificateStatus     *)
(* rows.  One invocation of Response is followed from the call to its      *)
(* return (or panic); Response shares no mutable state between             *)
(* invocations, so concurrent invocations are independent copies of it.    *)
(***************************************************************************)
EXTENDS Integers, Sequences, FiniteSets, TLC

VARIABLES
    filter,      \* dbSource.filter: the *ocspFilter built by newFilter
    timeout,     \* dbSource.timeout (0: no timeout)
    db,          \* the certificateStatus table behind dbSource.dbMap
    pc,          \* position of the invocation: idle, querying, returned, panicked
    req,         \* the *ocsp.Request of the invocation
    certStatus,  \* local variable certStatus of Response
    selErr,      \* the error SelectCertificateStatus returned
    ctx,         \* the query context: none, background, timeout
    cancelled,   \* whether the deferred cancel() of the timeout context has run
    queries,     \* number of SelectCertificateStatus calls of the invocation
    log,         \* entries written to dbSource.log by the invocation
    ret          \* the (bytes, headers, error) triple returned

vars == <<filter, timeout, db, pc, req, certStatus, selErr, ctx, cancelled,
          queries, log, ret>>

(***************************************************************************)
(* Bounds of the model.                                                    *)
(***************************************************************************)
MaxIssuer == 2    \* issuer certificates 1..MaxIssuer
MaxCerts == 2     \* longest issuerCerts list given to newFilter
MaxSerial == 2    \* serial numbers 11*k, k in 0..MaxSerial
MaxByte == 2      \* stored responses <<>> and <<b>>, b in 1..MaxByte

(***************************************************************************)
(* Values.                                                                 *)
(***************************************************************************)
SHA1 == "SHA-1"
HashAlgorithms == {SHA1, "SHA-256"}

Issuers == 1..MaxIssuer

\* sha1.Sum, abstracted to an injective one-byte digest of the key bytes.
Sha1Sum(bytes) == <<(bytes[1] * 37 + 11) % 256>>

\* The certificate core.LoadCert reads from path c: its issuance.IssuerID and
\* the bytes of the subjectPublicKey bit string of its SPKI.
CertID(c) == c
SubjectPublicKey(c) == <<c>>

HexDigitsLower == <<"0","1","2","3","4","5","6","7","8","9","a","b","c","d","e","f">>
HexDigitsUpper == <<"0","1","2","3","4","5","6","7","8","9","A","B","C","D","E","F">>

RECURSIVE EncodeToString(_)
\* hex.EncodeToString: two lowercase hex digits per byte.
EncodeToString(bytes) ==
    IF bytes = <<>> THEN <<>>
    ELSE <<HexDigitsLower[(Head(bytes) \div 16) + 1],
           HexDigitsLower[(Head(bytes) % 16) + 1]>> \o EncodeToString(Tail(bytes))

SerialHexLen == 2

RECURSIVE ToHex(_, _)
ToHex(n, width) ==
    IF width = 0 THEN <<>>
    ELSE Append(ToHex(n \div 16, width - 1), HexDigitsUpper[(n % 16) + 1])

\* core.SerialToString: the serial as a zero-padded hexadecimal string.
SerialToString(serial) == ToHex(serial, SerialHexLen)

\* strings.HasPrefix
HasPrefix(s, prefix) ==
    /\ Len(prefix) <= Len(s)
    /\ SubSeq(s, 1, Len(prefix)) = prefix

SerialNumbers == {11 * k : k \in 0..MaxSerial}
Prefixes == {<<"0">>, <<"1", "6">>}
Timeouts == {0, 1}
Times == {0, 1}
Responses == {<<>>} \cup {<<b>> : b \in 1..MaxByte}

Requests ==
    [HashAlgorithm : HashAlgorithms,
     IssuerKeyHash : {Sha1Sum(SubjectPublicKey(c)) : c \in Issuers},
     SerialNumber  : SerialNumbers]

\* core.CertificateStatus.  IssuerID is a *int64: {} is the nil pointer.
Rows ==
    [Serial          : {SerialToString(s) : s \in SerialNumbers},
     IssuerID        : {{}} \cup {{i} : i \in Issuers},
     OCSPResponse    : Responses,
     OCSPLastUpdated : Times,
     IsExpired       : BOOLEAN]

\* The zero value of core.CertificateStatus.
ZeroStatus ==
    [Serial |-> <<>>, IssuerID |-> {}, OCSPResponse |-> <<>>,
     OCSPLastUpdated |-> 0, IsExpired |-> FALSE]

NoRequest == [HashAlgorithm |-> "", IssuerKeyHash |-> <<>>, SerialNumber |-> 0]

(***************************************************************************)
(* Errors.  kind is what errors.Is / db.IsNoRows see through wrapping,     *)
(* text and detail are what Error() prints.                                *)
(***************************************************************************)
ErrNil == [kind |-> "nil", text |-> "", detail |-> <<>>]
ErrNotFound ==
    [kind |-> "NotFound", text |-> "Request OCSP Response not found", detail |-> <<>>]
ErrNoRows == [kind |-> "NoRows", text |-> "sql: no rows in result set", detail |-> <<>>]
ErrDB == [kind |-> "DB", text |-> "connection refused", detail |-> <<>>]
ErrDeadline ==
    [kind |-> "Deadline", text |-> "context deadline exceeded", detail |-> <<>>]

\* fmt.Errorf("text ...: %w", detail, inner)
Wrap(text, detail, inner) == [kind |-> inner.kind, text |-> text, detail |-> detail]

\* errors.Is(err, bocsp.ErrNotFound)
IsNotFound(err) == err.kind = "NotFound"
\* db.IsNoRows
IsNoRows(err) == err.kind = "NoRows"

NilHeader == "nil"
NilBytes == <<>>
Result(bytes, err) == [bytes |-> bytes, headers |-> NilHeader, err |-> err]
NoResult == Result(NilBytes, ErrNil)

Entry(level, msg, ca, serial, err) ==
    [level |-> level, msg |-> msg, ca |-> ca, serial |-> serial, err |-> err]

(***************************************************************************)
(* newFilter                                                               *)
(***************************************************************************)
RECURSIVE IssuerKeyHashes(_)
\* The loop of newFilter: issuerKeyHashes[caCert.ID()] = keyHash[:], the
\* last write for an ID winning.
IssuerKeyHashes(issuerCerts) ==
    IF issuerCerts = <<>> THEN <<>>
    ELSE LET n == Len(issuerCerts)
             m == IssuerKeyHashes(SubSeq(issuerCerts, 1, n - 1))
             c == issuerCerts[n]
             k == Sha1Sum(SubjectPublicKey(c))
         IN  [i \in (DOMAIN m) \cup {CertID(c)} |-> IF i = CertID(c) THEN k ELSE m[i]]

newFilter(issuerCerts, serialPrefixes) ==
    IF Len(issuerCerts) < 1
    THEN [err |-> TRUE, filter |-> <<>>]
    ELSE [err |-> FALSE,
          filter |-> [issuerKeyHashAlgorithm |-> SHA1,
                      issuerKeyHashes |-> IssuerKeyHashes(issuerCerts),
                      serialPrefixes |-> serialPrefixes]]

RECURSIVE SeqsUpTo(_, _)
SeqsUpTo(S, n) ==
    IF n = 0 THEN {<<>>}
    ELSE LET shorter == SeqsUpTo(S, n - 1)
         IN  shorter \cup {Append(s, x) : s \in shorter, x \in S}

CertLists == SeqsUpTo(Issuers, MaxCerts)

\* The filters main can build: newFilter failing ends the process
\* (cmd.FailOnError) before any request is served.
Filters ==
    {newFilter(l, p).filter :
        l \in {x \in CertLists : ~newFilter(x, {}).err}, p \in SUBSET Prefixes}

\* The table holds at most one row per serial; one row is kept.
DbContents == {{}} \cup {{r} : r \in Rows}

(***************************************************************************)
(* ocspFilter                                                              *)
(***************************************************************************)
\* checkRequest with the rejections formatted with %s instead of %w: the
\* errors no longer wrap ErrNotFound.
checkRequestUnwrapped(f, r) ==
    IF r.HashAlgorithm # f.issuerKeyHashAlgorithm
    THEN [kind |-> "errorString",
          text |-> "Request ca key hash using unsupported algorithm",
          detail |-> <<r.HashAlgorithm>>]
    ELSE IF ~\E id \in DOMAIN f.issuerKeyHashes :
                f.issuerKeyHashes[id] = r.IssuerKeyHash
    THEN [kind |-> "errorString",
          text |-> "Request intended for wrong issuer cert",
          detail |-> EncodeToString(r.IssuerKeyHash)]
    ELSE IF /\ Cardinality(f.serialPrefixes) > 0
            /\ ~\E prefix \in f.serialPrefixes :
                   HasPrefix(SerialToString(r.SerialNumber), prefix)
    THEN [kind |-> "errorString", text |-> "Request serial has wrong prefix",
          detail |-> <<>>]
    ELSE ErrNil

\* checkRequest without the serial prefix check.
checkRequestNoPrefix(f, r) ==
    IF r.HashAlgorithm # f.issuerKeyHashAlgorithm
    THEN Wrap("Request ca key hash using unsupported algorithm",
              <<r.HashAlgorithm>>, ErrNotFound)
    ELSE IF ~\E id \in DOMAIN f.issuerKeyHashes :
                f.issuerKeyHashes[id] = r.IssuerKeyHash
    THEN Wrap("Request intended for wrong issuer cert",
              EncodeToString(r.IssuerKeyHash), ErrNotFound)
    ELSE ErrNil

\* checkRequest: a descriptive error wrapping ErrNotFound, or nil.
checkRequest(f, r) ==
    IF r.HashAlgorithm # f.issuerKeyHashAlgorithm
    THEN Wrap("Request ca key hash using unsupported algorithm",
              <<r.HashAlgorithm>>, ErrNotFound)
    ELSE IF ~\E id \in DOMAIN f.issuerKeyHashes :
                f.issuerKeyHashes[id] = r.IssuerKeyHash
    THEN Wrap("Request intended for wrong issuer cert",
              EncodeToString(r.IssuerKeyHash), ErrNotFound)
    ELSE IF /\ Cardinality(f.serialPrefixes) > 0
            /\ ~\E prefix \in f.serialPrefixes :
                   HasPrefix(SerialToString(r.SerialNumber), prefix)
    THEN Wrap("Request serial has wrong prefix", <<>>, ErrNotFound)
    ELSE ErrNil

\* responseMatchesIssuer accepting a row of any issuer.
responseMatchesIssuerAnyIssuer(f, r, status) ==
    IF status.IssuerID = {} THEN "panic" ELSE "true"

\* responseMatchesIssuer with the comparison of the key hashes negated.
responseMatchesIssuerNegated(f, r, status) ==
    IF status.IssuerID = {}
    THEN "panic"
    ELSE LET id == CHOOSE i \in status.IssuerID : TRUE
         IN  IF id \notin DOMAIN f.issuerKeyHashes
             THEN "false"
             ELSE IF f.issuerKeyHashes[id] # r.IssuerKeyHash THEN "true" ELSE "false"

\* responseMatchesIssuer: "true" or "false", or "panic" when *status.IssuerID
\* dereferences a nil pointer.
responseMatchesIssuer(f, r, status) ==
    IF status.IssuerID = {}
    THEN "panic"
    ELSE LET id == CHOOSE i \in status.IssuerID : TRUE
         IN  IF id \notin DOMAIN f.issuerKeyHashes
             THEN "false"
             ELSE IF f.issuerKeyHashes[id] = r.IssuerKeyHash THEN "true" ELSE "false"

(***************************************************************************)
(* dbSource.Response                                                       *)
(***************************************************************************)
CA(r) == EncodeToString(r.IssuerKeyHash)

Step(nextpc, result, entries) == [pc |-> nextpc, ret |-> result, log |-> entries]

\* lookupFailure answering every failure of the lookup with ErrNotFound.
lookupFailureAllNotFound(err) ==
    Step("returned", Result(NilBytes, ErrNotFound), <<>>)

\* lookupFailure logging at audit severity before the IsNoRows test.
lookupFailureLogsNoRows(err) ==
    IF IsNoRows(err)
    THEN Step("returned", Result(NilBytes, ErrNotFound),
              <<Entry("auditerr", "Looking up OCSP response", <<>>, <<>>, err)>>)
    ELSE Step("returned", Result(NilBytes, err),
              <<Entry("auditerr", "Looking up OCSP response", <<>>, <<>>, err)>>)

\* lookupFailure querying again after a failure of the store.
lookupFailureRetry(err) ==
    IF IsNoRows(err)
    THEN Step("returned", Result(NilBytes, ErrNotFound), <<>>)
    ELSE Step("querying", NoResult,
              <<Entry("auditerr", "Looking up OCSP response", <<>>, <<>>, err)>>)

\* Response when SelectCertificateStatus returned err # nil.
lookupFailure(err) ==
    IF IsNoRows(err)
    THEN Step("returned", Result(NilBytes, ErrNotFound), <<>>)
    ELSE Step("returned", Result(NilBytes, err),
              <<Entry("auditerr", "Looking up OCSP response", <<>>, <<>>, err)>>)

\* expiredOutcome returning the stored bytes next to the error.
expiredOutcomeWithBytes(r, status) ==
    Step("returned", Result(status.OCSPResponse, ErrNotFound),
         <<Entry("info", "OCSP Response not sent (expired)",
                 CA(r), SerialToString(r.SerialNumber), ErrNil)>>)

\* Response on a row with IsExpired set.
expiredOutcome(r, status) ==
    Step("returned", Result(NilBytes, ErrNotFound),
         <<Entry("info", "OCSP Response not sent (expired)",
                 CA(r), SerialToString(r.SerialNumber), ErrNil)>>)

\* Response on a row whose OCSPLastUpdated is the zero time.
zeroLastUpdatedOutcome(r, status) ==
    Step("returned", Result(NilBytes, ErrNotFound),
         <<Entry("warning", "OCSP Response not sent (ocspLastUpdated is zero)",
                 CA(r), SerialToString(r.SerialNumber), ErrNil)>>)

\* Response on a row of another issuer than the request's.
mismatchOutcome(r, status) ==
    Step("returned", Result(NilBytes, ErrNotFound),
         <<Entry("warning", "OCSP Response not sent (issuer and serial mismatch)",
                 CA(r), SerialToString(r.SerialNumber), ErrNil)>>)

\* Response when SelectCertificateStatus returned the row status.
statusOutcome(f, r, status) ==
    IF status.IsExpired
    THEN expiredOutcome(r, status)
    ELSE IF status.OCSPLastUpdated = 0
    THEN zeroLastUpdatedOutcome(r, status)
    ELSE LET matches == responseMatchesIssuer(f, r, status)
         IN  IF matches = "panic"
             THEN Step("panicked", NoResult, <<>>)
             ELSE IF matches = "false"
             THEN mismatchOutcome(r, status)
             ELSE Step("returned", Result(status.OCSPResponse, ErrNil), <<>>)

\* The deferred closure of Response, run when Response returns or panics.
deferredLog(r, status) ==
    IF Len(status.OCSPResponse) # 0
    THEN <<Entry("debug", "OCSP Response sent", CA(r), SerialToString(r.SerialNumber),
                 ErrNil)>>
    ELSE <<>>

\* sa.SelectCertificateStatus(dbMap.WithContext(context), serial): what the
\* single-row lookup by serial can return.  A lookup that fails returns the
\* zero status.
SelectCertificateStatus(table, serial, context) ==
    LET found == {row \in table : row.Serial = serial}
    IN  {[status |-> row, err |-> ErrNil] : row \in found}
        \cup (IF found = {} THEN {[status |-> ZeroStatus, err |-> ErrNoRows]} ELSE {})
        \cup {[status |-> ZeroStatus, err |-> ErrDB]}
        \cup (IF context = "timeout"
              THEN {[status |-> ZeroStatus, err |-> ErrDeadline]} ELSE {})

\* The context the query runs under.
queryContext(t) == IF t # 0 THEN "timeout" ELSE "background"

\* Response, the request rejected by the filter.
ResponseFiltered(r) ==
    /\ pc = "idle"
    /\ checkRequest(filter, r) # ErrNil
    /\ req' = r
    /\ log' = <<Entry("debug", "Not responding to filtered OCSP request",
                      <<>>, <<>>, checkRequest(filter, r))>>
    /\ ret' = Result(NilBytes, checkRequest(filter, r))
    /\ pc' = "returned"
    /\ UNCHANGED <<filter, timeout, db, certStatus, selErr, ctx, cancelled, queries>>

\* Response, the request accepted by the filter: up to the call of
\* sa.SelectCertificateStatus.
ResponseLookup(r) ==
    /\ pc = "idle"
    /\ checkRequest(filter, r) = ErrNil
    /\ req' = r
    /\ log' = <<Entry("debug", "Searching for OCSP issued by us for serial",
                      <<>>, SerialToString(r.SerialNumber), ErrNil)>>
    /\ certStatus' = ZeroStatus
    /\ ctx' = queryContext(timeout)
    /\ pc' = "querying"
    /\ UNCHANGED <<filter, timeout, db, selErr, cancelled, queries, ret>>

\* Response from the return of sa.SelectCertificateStatus on: the checks of
\* the row, the deferred cancel() and the deferred log closure.
Complete(status, err) ==
    LET out == IF err # ErrNil THEN lookupFailure(err)
               ELSE statusOutcome(filter, req, status)
    IN  /\ certStatus' = status
        /\ selErr' = err
        /\ queries' = queries + 1
        /\ log' = log \o out.log \o deferredLog(req, status)
        /\ cancelled' = (ctx = "timeout")
        /\ ret' = out.ret
        /\ pc' = out.pc
        /\ UNCHANGED <<filter, timeout, db, req, ctx>>

\* The store returns the row of the serial.
SelectRow ==
    /\ pc = "querying"
    /\ \E o \in SelectCertificateStatus(db, SerialToString(req.SerialNumber), ctx) :
          /\ o.err = ErrNil
          /\ Complete(o.status, o.err)

\* The store has no row of the serial.
SelectNoRows ==
    /\ pc = "querying"
    /\ \E o \in SelectCertificateStatus(db, SerialToString(req.SerialNumber), ctx) :
          /\ IsNoRows(o.err)
          /\ Complete(o.status, o.err)

\* The query fails in the store.
SelectError ==
    /\ pc = "querying"
    /\ \E o \in SelectCertificateStatus(db, SerialToString(req.SerialNumber), ctx) :
          /\ o.err = ErrDB
          /\ Complete(o.status, o.err)

\* The deadline of the timeout context passes during the query.
SelectTimeout ==
    /\ pc = "querying"
    /\ \E o \in SelectCertificateStatus(db, SerialToString(req.SerialNumber), ctx) :
          /\ o.err = ErrDeadline
          /\ Complete(o.status, o.err)

\* The caller takes the result (net/http recovers a panic of the handler);
\* the next invocation starts afresh.
Done ==
    /\ pc \in {"returned", "panicked"}
    /\ pc' = "idle"
    /\ req' = NoRequest
    /\ certStatus' = ZeroStatus
    /\ selErr' = ErrNil
    /\ ctx' = "none"
    /\ cancelled' = FALSE
    /\ queries' = 0
    /\ log' = <<>>
    /\ ret' = NoResult
    /\ UNCHANGED <<filter, timeout, db>>

Init ==
    /\ filter \in Filters
    /\ timeout \in Timeouts
    /\ db \in DbContents
    /\ pc = "idle"
    /\ req = NoRequest
    /\ certStatus = ZeroStatus
    /\ selErr = ErrNil
    /\ ctx = "none"
    /\ cancelled = FALSE
    /\ queries = 0
    /\ log = <<>>
    /\ ret = NoResult

Next ==
    \/ \E r \in Requests : ResponseFiltered(r)
    \/ \E r \in Requests : ResponseLookup(r)
    \/ SelectRow
    \/ SelectNoRows
    \/ SelectError
    \/ SelectTimeout
    \/ Done

Spec == Init /\ [][Next]_vars

(***************************************************************************)
(* Vocabulary of the properties, stated on the state alone.                *)
(***************************************************************************)
Returned == pc = "returned"

SerialKey == SerialToString(req.SerialNumber)

\* The request's issuer key hash is a value of the index.
KnownIssuer ==
    \E id \in DOMAIN filter.issuerKeyHashes :
        filter.issuerKeyHashes[id] = req.IssuerKeyHash

\* The serial starts with a configured prefix, if any is configured.
PrefixSatisfied ==
    filter.serialPrefixes # {} =>
        \E prefix \in filter.serialPrefixes : HasPrefix(SerialKey, prefix)

\* The filter has a reason to reject the request.
FilterRejects ==
    \/ req.HashAlgorithm # filter.issuerKeyHashAlgorithm
    \/ ~KnownIssuer
    \/ ~PrefixSatisfied

\* The index maps the row's IssuerID to the request's issuer key hash.
OwnedByRequestedIssuer(row) ==
    \E i \in row.IssuerID :
        /\ i \in DOMAIN filter.issuerKeyHashes
        /\ filter.issuerKeyHashes[i] = req.IssuerKeyHash

\* A row the responder may answer from.
Answerable(row) ==
    /\ row.Serial = SerialKey
    /\ ~row.IsExpired
    /\ row.OCSPLastUpdated # 0
    /\ OwnedByRequestedIssuer(row)

\* The error is neither nil nor a NotFound: the transport's Internal.
IsInternal(err) == err # ErrNil /\ ~IsNotFound(err)

\* Response declined to answer (it returned an error that no failure of the
\* lookup other than "no rows" caused).
Declined == Returned /\ ret.err # ErrNil /\ selErr \in {ErrNil, ErrNoRows}

AuditEntries == {i \in 1..Len(log) : log[i].level = "auditerr"}
SentEntries == {i \in 1..Len(log) : log[i].msg = "OCSP Response sent"}

\* C1: Response returns bytes with a nil error only if (a) the request's
\* issuer key hash is a value of the index, (b) the serial satisfies the
\* prefix restriction, (c) the store holds a row of that serial that is not
\* expired and has a non-zero OCSPLastUpdated, and (d) the index maps that
\* row's IssuerID to the request's issuer key hash.
ReleaseOnlyIfAuthorized ==
    (Returned /\ ret.err = ErrNil) =>
        /\ KnownIssuer
        /\ PrefixSatisfied
        /\ \E row \in db : Answerable(row)

ReleaseWitness ==
    /\ Returned
    /\ ret.err = ErrNil
    /\ ret.bytes # NilBytes
    /\ filter.serialPrefixes # {}
    /\ Cardinality(DOMAIN filter.issuerKeyHashes) > 1

\* C2 as stated: every declined request gets the same triple, which is the
\* one of the "no rows" case: (nil, nil, ErrNotFound).
UniformRejection ==
    Declined => ret = Result(NilBytes, ErrNotFound)

\* C2 amended: every declined request gets nil bytes, nil headers and an
\* error that wraps ErrNotFound; after the lookup the error is ErrNotFound
\* itself, while a rejection by the filter carries a message of its own.
RejectionIsNotFound ==
    Declined =>
        /\ ret.bytes = NilBytes
        /\ ret.headers = NilHeader
        /\ IsNotFound(ret.err)
        /\ (queries > 0 => ret.err = ErrNotFound)
        /\ (queries = 0 => ret.err # ErrNotFound /\ FilterRejects)

RejectionWitness ==
    /\ Declined
    /\ queries = 0
    /\ ret.err.text = "Request intended for wrong issuer cert"
    /\ ret.err.detail = EncodeToString(req.IssuerKeyHash)

\* C3 as stated: a request the filter accepts, whose serial has an
\* answerable row in the store, gets that row's OCSPResponse, nil headers and
\* a nil error.
ValidRequest ==
    /\ req.HashAlgorithm = filter.issuerKeyHashAlgorithm
    /\ KnownIssuer
    /\ PrefixSatisfied
    /\ \E row \in db : Answerable(row)

ValidRequestAnswered ==
    (Returned /\ ValidRequest) =>
        \A row \in db : Answerable(row) => ret = Result(row.OCSPResponse, ErrNil)

\* C3 amended: the same, provided the lookup returned the row (the store
\* neither failed nor timed out).
ValidRequestAnsweredWhenLookupSucceeds ==
    (Returned /\ ValidRequest /\ selErr = ErrNil) =>
        \A row \in db : Answerable(row) => ret = Result(row.OCSPResponse, ErrNil)

ValidRequestWitness ==
    /\ Returned
    /\ ValidRequest
    /\ selErr = ErrNil
    /\ queries = 1
    /\ ret.bytes # NilBytes
    /\ filter.serialPrefixes # {}

\* C4: a lookup that ran into the deadline of a non-zero timeout yields an
\* Internal failure, and a failed lookup yields NotFound only when the store
\* reported no rows.
TimeoutIsInternal ==
    (Returned /\ queries > 0) =>
        /\ (selErr = ErrDeadline => IsInternal(ret.err) /\ timeout # 0)
        /\ ((selErr # ErrNil /\ IsNotFound(ret.err)) => IsNoRows(selErr))

TimeoutWitness ==
    /\ Returned
    /\ selErr = ErrDeadline
    /\ ret.err = ErrDeadline
    /\ cancelled

\* C5: a return carries either the bytes of a row a successful lookup
\* returned, with a nil error, or an error with nil bytes; a panic returns
\* nothing.
BytesOrFailure ==
    /\ Returned =>
          \/ /\ ret.err = ErrNil
             /\ selErr = ErrNil
             /\ queries = 1
             /\ ret.bytes = certStatus.OCSPResponse
             /\ certStatus \in db
          \/ /\ ret.err # ErrNil
             /\ ret.bytes = NilBytes
    /\ ~Returned => ret = NoResult

BytesOrFailureWitness ==
    /\ Returned
    /\ ret.err = ErrNotFound
    /\ certStatus.IsExpired
    /\ certStatus.OCSPResponse # NilBytes
    /\ ret.bytes = NilBytes

\* C6: Response ends by returning, never by a panic.
NeverPanics == pc # "panicked"

\* C7 as stated: an Internal failure comes with exactly one audit entry, which
\* carries the request's serial and issuer key hash; a NotFound with none.
AuditEntryCarriesRequest ==
    Returned =>
        /\ IsInternal(ret.err) =>
              /\ Cardinality(AuditEntries) = 1
              /\ \A i \in AuditEntries :
                    /\ log[i].serial = SerialKey
                    /\ log[i].ca = CA(req)
        /\ IsNotFound(ret.err) => AuditEntries = {}

\* C7 amended: an Internal failure comes with exactly one audit entry, which
\* carries the store's error and neither the serial nor the issuer key hash;
\* a NotFound with none.
AuditEntryCarriesError ==
    Returned =>
        /\ IsInternal(ret.err) =>
              /\ Cardinality(AuditEntries) = 1
              /\ \A i \in AuditEntries :
                    /\ log[i].err = ret.err
                    /\ log[i].err = selErr
                    /\ log[i].serial = <<>>
                    /\ log[i].ca = <<>>
        /\ IsNotFound(ret.err) => AuditEntries = {}

AuditWitness ==
    /\ Returned
    /\ ret.err = ErrDB
    /\ Cardinality(AuditEntries) = 1

\* C8: an invocation queries the store at most once, and a failed lookup is
\* what the invocation returns on, after that one query.
AtMostOneQuery ==
    /\ queries <= 1
    /\ pc = "querying" => queries = 0
    /\ selErr # ErrNil => (Returned /\ queries = 1 /\ ret.err # ErrNil)

AtMostOneQueryWitness ==
    /\ Returned
    /\ selErr = ErrDB
    /\ queries = 1

\* C9: a request the filter rejects is never looked up: no query is issued
\* and no query context is created for it.
NoLookupForRejected ==
    FilterRejects =>
        /\ pc # "querying"
        /\ queries = 0
        /\ ctx = "none"
        /\ ~cancelled

NoLookupWitness ==
    /\ Returned
    /\ req.HashAlgorithm = filter.issuerKeyHashAlgorithm
    /\ KnownIssuer
    /\ ~PrefixSatisfied
    /\ queries = 0

\* C10: "OCSP Response sent" is logged by exactly the invocations that
\* return the stored bytes with a nil error.
SentLoggedIffSent ==
    pc \in {"returned", "panicked"} =>
        (SentEntries # {} <=> (Returned /\ ret.err = ErrNil /\ queries = 1))

====
